---- MODULE Spec2Model ----
(***************************************************************************)
(* face-service: the FaceEngine singleton (face_engine.py), its startup    *)
(* (main.py lifespan) and the /detect route (routes/detect.py).            *)
(*                                                                         *)
(* Python objects are numbered: engines[i] is the i-th FaceEngine object   *)
(* allocated by object.__new__, profiles[i] the i-th FaceAnalysis built.   *)
(* An optional value is a tuple: None is << >>, a value v is <<v>>.        *)
(***************************************************************************)
EXTENDS Integers, Sequences, FiniteSets, TLC

\* ---------------------------------------------------------------- bounds
NumThreads == 2
MaxCalls == 2
MaxDim == 3
MaxFaces == 1
MaxRequested == 3

\* ------------------------------------------------------ program constants
EmbeddingDim == 512

None == << >>
Some(v) == <<v>>
Val(o) == o[1]

CPU == "CPUExecutionProvider"
MIGraphX == "MIGraphXExecutionProvider"
CUDA == "CUDAExecutionProvider"
ProviderNames == {CPU, MIGraphX, CUDA}

Threads == 1..NumThreads

VARIABLES
    settings,       \* the cached Settings object (config.py)
    available,      \* ort.get_available_providers()
    _instance,      \* FaceEngine._instance: None or <<engine id>>
    _initialized,   \* FaceEngine._initialized
    engines,        \* the FaceEngine objects allocated so far
    profiles,       \* the FaceAnalysis objects built so far
    pc,             \* per thread: the line it is about to run
    kind,           \* per thread: the call it is serving
    self,           \* per thread: the object __new__ returned
    outcome,        \* per thread: how its last call ended
    trace,          \* per thread: what its current/last __init__ did
    response,       \* the last answer of the /detect route
    resolved,       \* the last list _build_gpu_providers returned
    calls,          \* number of calls started
    accessor_setups \* _setup_providers runs entered through get_instance()

vars == <<settings, available, _instance, _initialized, engines, profiles,
          pc, kind, self, outcome, trace, response, resolved, calls,
          accessor_setups>>

config == <<settings, available>>

\* ------------------------------------------------------ provider resolver
\* A resolved entry is the bare name (options None) or the (name, options)
\* pair built for MIGraphX.
MIGraphXOptions ==
    [device_id |-> "0", migraphx_fp16_enable |-> "1",
     migraphx_int8_enable |-> "0", migraphx_exhaustive_tune |-> "1"]

Bare(name) == [name |-> name, options |-> None]
Tuned(name, options) == [name |-> name, options |-> Some(options)]

\* Settings.get_onnx_providers: the comma-separated string, split, stripped,
\* without the empty items.  The string is kept as the sequence of its
\* stripped items; "" is an item that strips to nothing.
RECURSIVE get_onnx_providers(_)
get_onnx_providers(items) ==
    IF items = << >> THEN << >>
    ELSE IF Head(items) = "" THEN get_onnx_providers(Tail(items))
         ELSE <<Head(items)>> \o get_onnx_providers(Tail(items))

\* The loop of _build_gpu_providers over the configured names.
RECURSIVE FilterConfigured(_, _)
FilterConfigured(configured, avail) ==
    IF configured = << >> THEN << >>
    ELSE LET provider_name == Head(configured)
             rest == FilterConfigured(Tail(configured), avail)
         IN IF provider_name \notin avail THEN rest
            ELSE IF provider_name = MIGraphX
                 THEN <<Tuned(MIGraphX, MIGraphXOptions)>> \o rest
                 ELSE <<Bare(provider_name)>> \o rest

NameSet(providers) == {providers[i].name : i \in 1..Len(providers)}

_build_gpu_providers(configured, avail) ==
    LET filtered == FilterConfigured(configured, avail)
        providers == IF filtered = << >> \/ filtered = <<Bare(CPU)>>
                     THEN <<Bare(CPU)>> ELSE filtered
    IN IF CPU \notin NameSet(providers)
       THEN Append(providers, Bare(CPU))
       ELSE providers

_build_cpu_providers == <<Bare(CPU)>>

\* --------------------------------------------------------------- objects
\* A FaceEngine object: the attributes _setup_providers stores on self; an
\* attribute not stored yet is None.  inited is history: an __init__ on this
\* object ran to its last line.
NewEngine ==
    [det_size_threshold |-> None, use_dual_detectors |-> None,
     app_high |-> None, app_low |-> None, app |-> None, inited |-> FALSE]

\* A FaceAnalysis object: its providers argument, the providers its session
\* runs on, and the det_size prepare() bound it to (None before prepare).
\* made_by is history: the statement that constructed it.
NewProfile(providers, active, made_by) ==
    [providers |-> providers, active |-> active, det_size |-> None,
     made_by |-> made_by]

\* The session may run on every provider it was given, or fall back to the
\* CPU silently when MIGraphX cannot be used.
ActiveChoices(providers) ==
    IF MIGraphX \in NameSet(providers)
    THEN {NameSet(providers), NameSet(providers) \ {MIGraphX}}
    ELSE {NameSet(providers)}

NoTrace ==
    [setup |-> FALSE, warned |-> FALSE, gpu_inactive |-> FALSE,
     warm_attempts |-> 0, warm_failed |-> 0, raised_at |-> "none"]

NoOutcome == [status |-> "none", engine |-> None]

NoResponse == [status |-> 0, det_type |-> "none", detector |-> None,
               faces |-> << >>, raw |-> << >>, shape |-> <<0, 0>>]

Http500 == [status |-> 500, det_type |-> "none", detector |-> None,
            faces |-> << >>, raw |-> << >>, shape |-> <<0, 0>>]

\* line 91
use_dual_detectors_bad(s) == s.det_size >= s.det_size_fallback
use_dual_detectors(s) == s.det_size > s.det_size_fallback

\* lines 168-171, 177-180, 185-188: try: ...get(...) except Exception
prewarm_except_bad(raises) == IF raises THEN "propagate" ELSE "continue"
prewarm_except(raises) == "continue"

Engine(t) == engines[Val(self[t])]

SetAttr(t, attr, v) ==
    [engines EXCEPT ![Val(self[t])] = [@ EXCEPT ![attr] = v]]

\* ------------------------------------------------------------ exceptions
\* An exception leaves __init__, cls() and get_instance() without touching
\* any state.  lifespan logs and re-raises it (main.py 41-43); the route
\* turns it into HTTP 500 (detect.py 68-70).
RaiseFrom(t, tr, where) ==
    /\ pc' = [pc EXCEPT ![t] = "idle"]
    /\ outcome' = [outcome EXCEPT ![t] = [status |-> "raised", engine |-> None]]
    /\ trace' = [trace EXCEPT ![t] = [tr EXCEPT !.raised_at = where]]
    /\ response' = IF kind[t] = "detect_faces" THEN Http500 ELSE response

Raise(t, where) == RaiseFrom(t, trace[t], where)

\* cls() returned self: FaceEngine() is done, get_instance goes on to store it.
Constructed(t) ==
    IF kind[t] = "FaceEngine"
    THEN /\ pc' = [pc EXCEPT ![t] = "idle"]
         /\ outcome' = [outcome EXCEPT ![t] =
                            [status |-> "returned", engine |-> self[t]]]
    ELSE /\ pc' = [pc EXCEPT ![t] = "gi_assign"]
         /\ UNCHANGED outcome

\* ----------------------------------------------------------------- calls
\* Some caller starts FaceEngine.get_instance() (lifespan, main.py 39).
Call_get_instance(t) ==
    /\ pc[t] = "idle" /\ calls < MaxCalls
    /\ calls' = calls + 1
    /\ kind' = [kind EXCEPT ![t] = "get_instance"]
    /\ pc' = [pc EXCEPT ![t] = "gi_check"]
    /\ self' = [self EXCEPT ![t] = None]
    /\ outcome' = [outcome EXCEPT ![t] = NoOutcome]
    /\ trace' = [trace EXCEPT ![t] = NoTrace]
    /\ UNCHANGED <<config, _instance, _initialized, engines, profiles,
                   response, resolved, accessor_setups>>

\* Some caller evaluates FaceEngine() directly.
Call_FaceEngine(t) ==
    /\ pc[t] = "idle" /\ calls < MaxCalls
    /\ calls' = calls + 1
    /\ kind' = [kind EXCEPT ![t] = "FaceEngine"]
    /\ pc' = [pc EXCEPT ![t] = "new_check"]
    /\ self' = [self EXCEPT ![t] = None]
    /\ outcome' = [outcome EXCEPT ![t] = NoOutcome]
    /\ trace' = [trace EXCEPT ![t] = NoTrace]
    /\ UNCHANGED <<config, _instance, _initialized, engines, profiles,
                   response, resolved, accessor_setups>>

\* A request reaches detect_faces (detect.py 37-66) with a decodable image.
Call_detect_faces(t) ==
    /\ pc[t] = "idle" /\ calls < MaxCalls
    /\ calls' = calls + 1
    /\ kind' = [kind EXCEPT ![t] = "detect_faces"]
    /\ pc' = [pc EXCEPT ![t] = "gi_check"]
    /\ self' = [self EXCEPT ![t] = None]
    /\ outcome' = [outcome EXCEPT ![t] = NoOutcome]
    /\ trace' = [trace EXCEPT ![t] = NoTrace]
    /\ response' = NoResponse
    /\ UNCHANGED <<config, _instance, _initialized, engines, profiles,
                   resolved, accessor_setups>>

\* ------------------------------------------------------------ get_instance
\* line 193: if cls._instance is None
gi_check(t) ==
    /\ pc[t] = "gi_check"
    /\ pc' = [pc EXCEPT ![t] = IF _instance = None THEN "new_check" ELSE "gi_ret"]
    /\ UNCHANGED <<config, _instance, _initialized, engines, profiles, kind,
                   self, outcome, trace, response, resolved, calls,
                   accessor_setups>>

\* line 194: cls._instance = <the value cls() returned>
gi_assign(t) ==
    /\ pc[t] = "gi_assign"
    /\ _instance' = self[t]
    /\ pc' = [pc EXCEPT ![t] = "gi_ret"]
    /\ UNCHANGED <<config, _initialized, engines, profiles, kind, self,
                   outcome, trace, response, resolved, calls, accessor_setups>>

\* line 195: return cls._instance
gi_ret(t) ==
    /\ pc[t] = "gi_ret"
    /\ outcome' = [outcome EXCEPT ![t] =
                       [status |-> "returned", engine |-> _instance]]
    /\ pc' = [pc EXCEPT ![t] =
                  IF kind[t] = "detect_faces" THEN "detect" ELSE "idle"]
    /\ UNCHANGED <<config, _instance, _initialized, engines, profiles, kind,
                   self, trace, response, resolved, calls, accessor_setups>>

\* ----------------------------------------------------------------- __new__
\* line 31: if cls._instance is None
new_check(t) ==
    /\ pc[t] = "new_check"
    /\ pc' = [pc EXCEPT ![t] = IF _instance = None THEN "new_set" ELSE "new_ret"]
    /\ UNCHANGED <<config, _instance, _initialized, engines, profiles, kind,
                   self, outcome, trace, response, resolved, calls,
                   accessor_setups>>

\* line 32: cls._instance = super().__new__(cls)
new_set(t) ==
    /\ pc[t] = "new_set"
    /\ engines' = Append(engines, NewEngine)
    /\ _instance' = Some(Len(engines) + 1)
    /\ pc' = [pc EXCEPT ![t] = "new_ret"]
    /\ UNCHANGED <<config, _initialized, profiles, kind, self, outcome, trace,
                   response, resolved, calls, accessor_setups>>

\* line 33: return cls._instance
new_ret(t) ==
    /\ pc[t] = "new_ret"
    /\ self' = [self EXCEPT ![t] = _instance]
    /\ pc' = [pc EXCEPT ![t] = "init_check"]
    /\ UNCHANGED <<config, _instance, _initialized, engines, profiles, kind,
                   outcome, trace, response, resolved, calls, accessor_setups>>

\* ---------------------------------------------------------------- __init__
\* lines 36-37: if FaceEngine._initialized: return
init_check(t) ==
    /\ pc[t] = "init_check"
    /\ IF _initialized
       THEN Constructed(t)
       ELSE pc' = [pc EXCEPT ![t] = "setup"] /\ UNCHANGED outcome
    /\ UNCHANGED <<config, _instance, _initialized, engines, profiles, kind,
                   self, trace, response, resolved, calls, accessor_setups>>

\* line 41: FaceEngine._initialized = True, and __init__ returns
init_done(t) ==
    /\ pc[t] = "init_done"
    /\ _initialized' = TRUE
    /\ engines' = SetAttr(t, "inited", TRUE)
    /\ Constructed(t)
    /\ UNCHANGED <<config, _instance, profiles, kind, self, trace, response,
                   resolved, calls, accessor_setups>>

\* -------------------------------------------------------- _setup_providers
GpuRequestedButInactive(p) ==
    MIGraphX \in NameSet(p.providers) /\ MIGraphX \notin p.active

\* lines 84-93: the provider lists, det_size_threshold, use_dual_detectors
setup(t) ==
    /\ pc[t] = "setup"
    /\ resolved' = _build_gpu_providers(
                       get_onnx_providers(settings.onnx_providers), available)
    /\ engines' = [engines EXCEPT ![Val(self[t])] =
                      [@ EXCEPT !.det_size_threshold = Some(settings.det_size_threshold),
                                !.use_dual_detectors = Some(use_dual_detectors(settings))]]
    /\ trace' = [trace EXCEPT ![t].setup = TRUE]
    /\ accessor_setups' = IF kind[t] = "FaceEngine" THEN accessor_setups
                          ELSE accessor_setups + 1
    /\ pc' = [pc EXCEPT ![t] = IF use_dual_detectors(settings)
                               THEN "high_new" ELSE "single_new"]
    /\ UNCHANGED <<config, _instance, _initialized, profiles, kind, self,
                   outcome, response, calls>>

\* lines 99-104: self.app_high = FaceAnalysis(providers=gpu_providers, ...)
high_new(t) ==
    /\ pc[t] = "high_new"
    /\ \/ /\ Raise(t, "construct")
          /\ UNCHANGED <<engines, profiles>>
       \/ /\ \E active \in ActiveChoices(resolved) :
                 profiles' = Append(profiles, NewProfile(resolved, active, "app_high"))
          /\ engines' = SetAttr(t, "app_high", Some(Len(profiles) + 1))
          /\ pc' = [pc EXCEPT ![t] = "high_prepare"]
          /\ UNCHANGED <<outcome, trace, response>>
    /\ UNCHANGED <<config, _instance, _initialized, kind, self, resolved,
                   calls, accessor_setups>>

\* line 105: self.app_high.prepare(ctx_id=0, det_size=(det_size, det_size))
high_prepare(t) ==
    /\ pc[t] = "high_prepare"
    /\ LET p == Val(Engine(t).app_high) IN
       \/ /\ Raise(t, "prepare")
          /\ UNCHANGED profiles
       \/ /\ profiles' = [profiles EXCEPT ![p].det_size = Some(settings.det_size)]
          /\ trace' = [trace EXCEPT ![t].gpu_inactive =
                                        GpuRequestedButInactive(profiles[p])]
          /\ pc' = [pc EXCEPT ![t] = "high_verify"]
          /\ UNCHANGED <<outcome, response>>
    /\ UNCHANGED <<config, _instance, _initialized, engines, kind, self,
                   resolved, calls, accessor_setups>>

\* lines 108-119: the active providers of the high-res session are read and
\* a warning is logged when MIGraphX is not among them, or when they cannot
\* be read.
high_verify(t) ==
    /\ pc[t] = "high_verify"
    /\ LET p == Val(Engine(t).app_high) IN
       \/ trace' = [trace EXCEPT ![t].warned = TRUE]
       \/ trace' = [trace EXCEPT ![t].warned =
                                     @ \/ MIGraphX \notin profiles[p].active]
    /\ pc' = [pc EXCEPT ![t] = "low_new"]
    /\ UNCHANGED <<config, _instance, _initialized, engines, profiles, kind,
                   self, outcome, response, resolved, calls, accessor_setups>>

\* lines 128-133: self.app_low = FaceAnalysis(providers=cpu_providers, ...)
low_new(t) ==
    /\ pc[t] = "low_new"
    /\ \/ /\ Raise(t, "construct")
          /\ UNCHANGED <<engines, profiles>>
       \/ /\ profiles' = Append(profiles,
                 NewProfile(_build_cpu_providers, {CPU}, "app_low"))
          /\ engines' = SetAttr(t, "app_low", Some(Len(profiles) + 1))
          /\ pc' = [pc EXCEPT ![t] = "low_prepare"]
          /\ UNCHANGED <<outcome, trace, response>>
    /\ UNCHANGED <<config, _instance, _initialized, kind, self, resolved,
                   calls, accessor_setups>>

\* lines 134-136: self.app_low.prepare(det_size=(fallback, fallback))
low_prepare(t) ==
    /\ pc[t] = "low_prepare"
    /\ LET p == Val(Engine(t).app_low) IN
       \/ /\ Raise(t, "prepare")
          /\ UNCHANGED profiles
       \/ /\ profiles' = [profiles EXCEPT ![p].det_size =
                                              Some(settings.det_size_fallback)]
          /\ pc' = [pc EXCEPT ![t] = "prewarm_high"]
          /\ UNCHANGED <<outcome, trace, response>>
    /\ UNCHANGED <<config, _instance, _initialized, engines, kind, self,
                   resolved, calls, accessor_setups>>

\* One warm-up inference inside try/except: the get() may raise (it does on a
\* profile that was never prepared).
Prewarm(t, attr, next) ==
    LET p == Val(Engine(t)[attr]) IN
    \E raises \in BOOLEAN :
        /\ profiles[p].det_size = None => raises
        /\ LET tr == [trace[t] EXCEPT !.warm_attempts = @ + 1,
                                      !.warm_failed = @ + (IF raises THEN 1 ELSE 0)]
           IN IF prewarm_except(raises) = "propagate"
              THEN RaiseFrom(t, tr, "prewarm")
              ELSE /\ trace' = [trace EXCEPT ![t] = tr]
                   /\ pc' = [pc EXCEPT ![t] = next]
                   /\ UNCHANGED <<outcome, response>>

\* lines 166-172 of _prewarm_detectors
prewarm_high(t) ==
    /\ pc[t] = "prewarm_high"
    /\ Prewarm(t, "app_high", "prewarm_low")
    /\ UNCHANGED <<config, _instance, _initialized, engines, profiles, kind,
                   self, resolved, calls, accessor_setups>>

\* lines 175-181 of _prewarm_detectors
prewarm_low(t) ==
    /\ pc[t] = "prewarm_low"
    /\ Prewarm(t, "app_low", "set_app")
    /\ UNCHANGED <<config, _instance, _initialized, engines, profiles, kind,
                   self, resolved, calls, accessor_setups>>

\* line 142: self.app = self.app_high
set_app(t) ==
    /\ pc[t] = "set_app"
    /\ engines' = SetAttr(t, "app", Engine(t).app_high)
    /\ pc' = [pc EXCEPT ![t] = "init_done"]
    /\ UNCHANGED <<config, _instance, _initialized, profiles, kind, self,
                   outcome, trace, response, resolved, calls, accessor_setups>>

\* lines 149-154: self.app = FaceAnalysis(providers=gpu_providers, ...)
single_new(t) ==
    /\ pc[t] = "single_new"
    /\ \/ /\ Raise(t, "construct")
          /\ UNCHANGED <<engines, profiles>>
       \/ /\ \E active \in ActiveChoices(resolved) :
                 profiles' = Append(profiles, NewProfile(resolved, active, "app"))
          /\ engines' = SetAttr(t, "app", Some(Len(profiles) + 1))
          /\ pc' = [pc EXCEPT ![t] = "single_prepare"]
          /\ UNCHANGED <<outcome, trace, response>>
    /\ UNCHANGED <<config, _instance, _initialized, kind, self, resolved,
                   calls, accessor_setups>>

\* line 155: self.app.prepare(ctx_id=0, det_size=(det_size, det_size))
single_prepare(t) ==
    /\ pc[t] = "single_prepare"
    /\ LET p == Val(Engine(t).app) IN
       \/ /\ Raise(t, "prepare")
          /\ UNCHANGED profiles
       \/ /\ profiles' = [profiles EXCEPT ![p].det_size = Some(settings.det_size)]
          /\ trace' = [trace EXCEPT ![t].gpu_inactive =
                                        GpuRequestedButInactive(profiles[p])]
          /\ pc' = [pc EXCEPT ![t] = "alias_high"]
          /\ UNCHANGED <<outcome, response>>
    /\ UNCHANGED <<config, _instance, _initialized, engines, kind, self,
                   resolved, calls, accessor_setups>>

\* line 156: self.app_high = self.app
alias_high(t) ==
    /\ pc[t] = "alias_high"
    /\ engines' = SetAttr(t, "app_high", Engine(t).app)
    /\ pc' = [pc EXCEPT ![t] = "alias_low"]
    /\ UNCHANGED <<config, _instance, _initialized, profiles, kind, self,
                   outcome, trace, response, resolved, calls, accessor_setups>>

\* line 157: self.app_low = self.app
alias_low(t) ==
    /\ pc[t] = "alias_low"
    /\ engines' = SetAttr(t, "app_low", Engine(t).app)
    /\ pc' = [pc EXCEPT ![t] = "prewarm_single"]
    /\ UNCHANGED <<config, _instance, _initialized, profiles, kind, self,
                   outcome, trace, response, resolved, calls, accessor_setups>>

\* lines 183-189: _prewarm_single
prewarm_single(t) ==
    /\ pc[t] = "prewarm_single"
    /\ Prewarm(t, "app", "init_done")
    /\ UNCHANGED <<config, _instance, _initialized, engines, profiles, kind,
                   self, resolved, calls, accessor_setups>>

\* ------------------------------------------------------------------ detect
\* What a session can emit for one face.  The embedding is a vector of zeros
\* of the emitted length; age and gender come from the same genderage model,
\* so they are None together.
Embedding(n) == [i \in 1..n |-> 0]

RawFaces ==
    {[bbox |-> <<0, 0, 1, 1>>, embedding |-> Embedding(n), det_score |-> 1,
      age |-> IF g = None THEN None ELSE Some(30), gender |-> g] :
        n \in {EmbeddingDim - 1, EmbeddingDim, EmbeddingDim + 1},
        g \in {None, Some(0), Some(1), Some(2)}}

RawFaceLists == UNION {[1..n -> RawFaces] : n \in 0..MaxFaces}

Max(a, b) == IF a >= b THEN a ELSE b

\* lines 205-210: which attribute of the engine serves the image
select_detector_bad(use_dual, max_dim, threshold) ==
    IF use_dual /\ max_dim <= threshold THEN "app_low" ELSE "app_high"
select_detector(use_dual, max_dim, threshold) ==
    IF use_dual /\ max_dim < threshold THEN "app_low" ELSE "app_high"

DetType(attr) == IF attr = "app_low" THEN "Low-Res (CPU)" ELSE "High-Res (GPU)"

\* lines 226-232
gender_of_bad(gender) ==
    IF gender # None THEN Some("M") ELSE None
gender_of(gender) ==
    IF gender = Some(1) THEN Some("M")
    ELSE IF gender # None THEN Some("F") ELSE None

\* lines 221-233: the dict built for one face
FaceDict(face) ==
    [bbox |-> face.bbox,
     embedding |-> face.embedding,
     det_score |-> face.det_score,
     age |-> face.age,
     gender |-> gender_of(face.gender)]

\* detect.py 17-24: FaceResult(**f); age and gender default to None
FaceResult(f) ==
    [bbox |-> f.bbox, embedding |-> f.embedding, det_score |-> f.det_score,
     age |-> f.age, gender |-> f.gender]

\* detect.py 65-81 with face_engine.py 197-235: engine.detect(image) on the
\* engine get_instance() returned, and the response built from it.  A
\* missing attribute or a failing inference is answered with HTTP 500.
detect(t) ==
    /\ pc[t] = "detect"
    /\ \E height \in 1..MaxDim, width \in 1..MaxDim :
        LET eng == engines[Val(outcome[t].engine)]
            max_dim == Max(height, width)
            attr == select_detector(Val(eng.use_dual_detectors), max_dim,
                                    Val(eng.det_size_threshold))
            failed == [Http500 EXCEPT !.det_type = DetType(attr),
                                      !.detector = eng[attr],
                                      !.shape = <<height, width>>]
        IN IF eng.use_dual_detectors = None \/ eng[attr] = None
           THEN response' = Http500
           ELSE \/ response' = failed
                \/ /\ profiles[Val(eng[attr])].det_size # None
                   /\ \E faces \in RawFaceLists :
                        response' =
                            [status |-> 200,
                             det_type |-> DetType(attr),
                             detector |-> eng[attr],
                             faces |-> [i \in 1..Len(faces) |->
                                            FaceResult(FaceDict(faces[i]))],
                             raw |-> faces,
                             shape |-> <<height, width>>]
    /\ pc' = [pc EXCEPT ![t] = "idle"]
    /\ UNCHANGED <<config, _instance, _initialized, engines, profiles, kind,
                   self, outcome, trace, resolved, calls, accessor_setups>>

\* -------------------------------------------------------------- behaviours
\* config.py 26-28: the defaults of det_size, det_size_fallback and
\* det_size_threshold.
DefaultDetSize == 1280
DefaultDetSizeFallback == 640
DefaultDetSizeThreshold == 900

DetSizes == {DefaultDetSizeFallback, DefaultDetSize}

StartupProviders == {<<CPU>>, <<MIGraphX, CPU>>}

HostProviders == {{CPU}, {MIGraphX, CPU}}

Idle ==
    /\ _instance = None
    /\ _initialized = FALSE
    /\ engines = << >>
    /\ profiles = << >>
    /\ pc = [t \in Threads |-> "idle"]
    /\ kind = [t \in Threads |-> "none"]
    /\ self = [t \in Threads |-> None]
    /\ outcome = [t \in Threads |-> NoOutcome]
    /\ trace = [t \in Threads |-> NoTrace]
    /\ response = NoResponse
    /\ resolved = << >>
    /\ calls = 0
    /\ accessor_setups = 0

\* Every statement of get_instance, __new__, __init__ and _setup_providers.
LifecycleStep(t) ==
    \/ gi_check(t)
    \/ gi_assign(t)
    \/ gi_ret(t)
    \/ new_check(t)
    \/ new_set(t)
    \/ new_ret(t)
    \/ init_check(t)
    \/ init_done(t)
    \/ setup(t)
    \/ high_new(t)
    \/ high_prepare(t)
    \/ high_verify(t)
    \/ low_new(t)
    \/ low_prepare(t)
    \/ prewarm_high(t)
    \/ prewarm_low(t)
    \/ set_app(t)
    \/ single_new(t)
    \/ single_prepare(t)
    \/ alias_high(t)
    \/ alias_low(t)
    \/ prewarm_single(t)

\* The service (main.py): the event loop runs lifespan, which initializes the
\* engine; only when that returned does the application serve requests, one
\* handler at a time (the handlers never await between get_instance and the
\* response).
EventLoop == 1

Init ==
    /\ settings \in [onnx_providers : StartupProviders,
                     det_size : DetSizes,
                     det_size_fallback : DetSizes,
                     det_size_threshold : 1..MaxDim]
    /\ available \in HostProviders
    /\ Idle

lifespan ==
    /\ calls = 0
    /\ Call_get_instance(EventLoop)

Serving == calls > 0 /\ outcome[EventLoop].status = "returned"

detect_faces ==
    /\ Serving
    /\ Call_detect_faces(EventLoop)

Next ==
    \/ lifespan
    \/ detect_faces
    \/ LifecycleStep(EventLoop)
    \/ detect(EventLoop)

Spec == Init /\ [][Next]_vars

\* FaceEngine used as a class by arbitrary callers, one call at a time.
InitCallers ==
    /\ settings \in [onnx_providers : StartupProviders,
                     det_size : DetSizes,
                     det_size_fallback : DetSizes,
                     det_size_threshold : {DefaultDetSizeThreshold}]
    /\ available \in HostProviders
    /\ Idle

NextCallers ==
    \/ Call_get_instance(EventLoop)
    \/ Call_FaceEngine(EventLoop)
    \/ LifecycleStep(EventLoop)

SpecCallers == InitCallers /\ [][NextCallers]_vars

\* The accessor alone: get_instance() calls, one at a time.
NextAccessor ==
    \/ Call_get_instance(EventLoop)
    \/ LifecycleStep(EventLoop)

SpecAccessor == InitCallers /\ [][NextAccessor]_vars

\* FaceEngine called from threads that interleave at every statement.
NextThreads ==
    \E t \in Threads :
        \/ Call_get_instance(t)
        \/ Call_FaceEngine(t)
        \/ LifecycleStep(t)

InitThreads ==
    /\ settings \in [onnx_providers : {<<MIGraphX, CPU>>},
                     det_size : DetSizes,
                     det_size_fallback : {DefaultDetSizeFallback},
                     det_size_threshold : {DefaultDetSizeThreshold}]
    /\ available = {MIGraphX, CPU}
    /\ Idle

SpecThreads == InitThreads /\ [][NextThreads]_vars

\* The provider resolver alone, over every configured string and host.
ConfiguredItems == ProviderNames \cup {""}

InitProviders ==
    /\ settings \in [onnx_providers :
                         UNION {[1..n -> ConfiguredItems] : n \in 0..MaxRequested},
                     det_size : {DefaultDetSize},
                     det_size_fallback : {DefaultDetSizeFallback},
                     det_size_threshold : {DefaultDetSizeThreshold}]
    /\ available \in SUBSET ProviderNames
    /\ Idle

Resolve ==
    /\ resolved = << >>
    /\ resolved' = _build_gpu_providers(
                       get_onnx_providers(settings.onnx_providers), available)
    /\ UNCHANGED <<config, _instance, _initialized, engines, profiles, pc,
                   kind, self, outcome, trace, response, calls,
                   accessor_setups>>

SpecProviders == InitProviders /\ [][Resolve]_vars

\* ------------------------------------------------------------------ claims
ConfiguredDual == settings.det_size > settings.det_size_fallback

GpuProfilesBuilt ==
    {i \in 1..Len(profiles) :
        /\ profiles[i].made_by \in {"app_high", "app"}
        /\ MIGraphX \in NameSet(profiles[i].providers)}

\* C1: when several callers run get_instance() concurrently before any engine
\* exists, _setup_providers is entered through get_instance() once in total.
C1_OneInitialization == accessor_setups <= 1

\* C2: over any sequence of get_instance() and FaceEngine() calls, at most one
\* FaceAnalysis is ever built with a GPU provider list, one that names
\* MIGraphX (app_high, or app in single-detector mode).
C2_AtMostOneGpuProfile == Cardinality(GpuProfilesBuilt) <= 1

\* C3: an engine returned by get_instance() has completed an initialization
\* (after a failed initialization no get_instance() call hands out the
\* engine).
C3_HandedOutEngineIsReady ==
    \A t \in Threads :
        (kind[t] = "get_instance" /\ outcome[t].status = "returned")
            => engines[Val(outcome[t].engine)].inited

\* C4: the list _build_gpu_providers returns is non-empty, names no provider
\* twice and ends with CPUExecutionProvider.
C4_ResolvedListWellFormed ==
    resolved # << >> =>
        /\ Len(resolved) >= 1
        /\ \A i, j \in 1..Len(resolved) :
               resolved[i].name = resolved[j].name => i = j
        /\ resolved[Len(resolved)].name = CPU

\* C5: detect runs the inference on app_low exactly when the configured
\* det_size exceeds det_size_fallback and max(height, width) is below
\* det_size_threshold, and on app_high otherwise (max_dim = threshold
\* included, and always in single-detector mode).
C5_DispatchBySize ==
    response.det_type # "none" =>
        LET eng == engines[Val(_instance)]
            max_dim == Max(response.shape[1], response.shape[2])
        IN IF ConfiguredDual /\ max_dim < settings.det_size_threshold
           THEN /\ response.det_type = "Low-Res (CPU)"
                /\ response.detector = eng.app_low
                /\ profiles[Val(response.detector)].made_by = "app_low"
           ELSE /\ response.det_type = "High-Res (GPU)"
                /\ response.detector = eng.app_high
                /\ profiles[Val(response.detector)].made_by \in {"app_high", "app"}

\* C5 witness: in dual mode an image whose largest side equals the threshold
\* was served by the high-resolution profile.
C5_BoundaryServedHigh ==
    /\ response.status = 200
    /\ ConfiguredDual
    /\ Max(response.shape[1], response.shape[2]) = settings.det_size_threshold
    /\ response.det_type = "High-Res (GPU)"

\* C6: on an engine whose initialization completed, use_dual_detectors is
\* det_size > det_size_fallback; in dual mode app_high and app_low are two
\* profiles and app_low is the CPU-only one prepared at the fallback size; in
\* single mode app_low and app_high are the same object.
C6_DualIffLarger ==
    \A e \in 1..Len(engines) :
        engines[e].inited =>
            /\ engines[e].use_dual_detectors = Some(ConfiguredDual)
            /\ engines[e].app_high # None /\ engines[e].app_low # None
            /\ IF ConfiguredDual
               THEN /\ engines[e].app_high # engines[e].app_low
                    /\ profiles[Val(engines[e].app_low)].providers = <<Bare(CPU)>>
                    /\ profiles[Val(engines[e].app_low)].det_size
                           = Some(settings.det_size_fallback)
                    /\ profiles[Val(engines[e].app_high)].det_size
                           = Some(settings.det_size)
               ELSE engines[e].app_low = engines[e].app_high

\* C6 witness: a dual-mode engine completed initialization with two profiles.
C6_DualEngineReady ==
    \E e \in 1..Len(engines) :
        /\ engines[e].inited
        /\ ConfiguredDual
        /\ engines[e].app_high # engines[e].app_low

\* C7: every face of a /detect response carries an embedding of length 512.
C7_EmbeddingLength ==
    \A i \in 1..Len(response.faces) :
        Len(response.faces[i].embedding) = EmbeddingDim

\* C8: the gender of each returned face is "M" for raw gender 1, "F" for any
\* other non-null raw gender, and absent (None) for raw gender None.
C8_GenderMapping ==
    /\ Len(response.faces) = Len(response.raw)
    /\ \A i \in 1..Len(response.faces) :
           LET g == response.raw[i].gender
               out == response.faces[i].gender
           IN /\ g = Some(1) => out = Some("M")
              /\ (g # None /\ g # Some(1)) => out = Some("F")
              /\ g = None => out = None

\* C8 witness: a face with raw gender 0 was returned as "F".
C8_ZeroReturnedF ==
    \E i \in 1..Len(response.faces) :
        /\ response.raw[i].gender = Some(0)
        /\ response.faces[i].gender = Some("F")

\* C9: when an initialization prepared the GPU-list profile with MIGraphX
\* requested but not active, a warning was logged by the time the engine is
\* initialized.
C9_InactiveGpuWarned ==
    \A t \in Threads :
        (trace[t].gpu_inactive /\ pc[t] = "idle"
         /\ outcome[t].status = "returned" /\ _initialized)
            => trace[t].warned

\* C10: no call ends with an exception raised by a warm-up, and an __init__
\* that reaches its last line has attempted the warm-up of every distinct
\* profile (two in dual mode, one in single mode).
C10_PrewarmNeverFatal ==
    \A t \in Threads :
        /\ trace[t].raised_at # "prewarm"
        /\ pc[t] = "init_done" =>
               trace[t].warm_attempts = (IF ConfiguredDual THEN 2 ELSE 1)
        /\ trace[t].warm_failed > 0 =>
               pc[t] \in {"prewarm_low", "set_app", "init_done", "gi_assign",
                          "gi_ret", "idle"}

\* C10 witness: both warm-ups of a dual-mode initialization raised and the
\* call still returned an initialized engine.
C10_BothWarmupsFailedReady ==
    \E t \in Threads :
        /\ trace[t].warm_failed = 2
        /\ outcome[t].status = "returned"
        /\ engines[Val(outcome[t].engine)].inited
        /\ _initialized

====
